---- MODULE Spec2Model ----
(***************************************************************************)
(* A model of the uzulog logging library: the Logger level gate and its    *)
(* fan-out to handlers (logger.ts), the rotating file handler              *)
(* (handlers.ts) and the queued Telegram handler                           *)
(* (handlers/telegram.handler.ts).                                         *)
(*                                                                         *)
(* The three parts do not share state, so each has its own specification:  *)
(*   SpecLogger  Logger._log and BaseHandler.handle                        *)
(*   SpecRotate  RotatingFileHandler.setup / log / rotateLogFiles          *)
(*   SpecRemote  TelegramHandler.setup / log / tapQueue                    *)
(*   SpecFormat  BaseHandler.formatCustom and Logger.msgFormat             *)
(*   SpecConsole BaseHandler.splitFormatter / format, ConsoleHandler.format *)
(***************************************************************************)
EXTENDS Integers, Sequences, FiniteSets, TLC

VARIABLES
    \* ---- Logger and its handlers (logger.ts, handlers.ts BaseHandler)
    loggerLevel,    \* Logger.#level
    handlers,       \* Logger.#handlers: the sequence of the handlers' levels
    faulty,         \* index of the handler whose log() throws (0: none)
    returnResult,   \* Logger.#returnResult
    calls,          \* history: the level of every log call made so far
    logged,         \* history: per handler, the levels of the records given to log()
    last,           \* the outcome of the latest log call
    \* ---- RotatingFileHandler (handlers.ts) and the files it works on
    mode,           \* FileHandler._mode: "a", "w" or "x"
    maxBytes,       \* RotatingFileHandler.#maxBytes
    maxBackupCount, \* RotatingFileHandler.#maxBackupCount
    currentFileSize,\* RotatingFileHandler.#currentFileSize
    fileOpen,       \* FileHandler._file is an open file
    listener,       \* the "unload" listener is registered
    rstate,         \* "new", "opened" (setup is past super.setup()), "ready" (setup
                    \* returned), "failed" (setup threw) or "destroyed"
    buf,            \* FileHandler._buf, the BufWriterSync: whether it exists, the
                    \* bytes it holds and whether a flush of it has failed
    threw,          \* "log" or "destroy" when the latest such call threw, else "none"
    fs,             \* the files: fs[0] is filename, fs[i] is filename.i
    fs0,            \* history: the files before setup
    fsAtSetup,      \* history: the files when setup returned
    rotations,      \* history: the number of rotations so far
    closed,         \* history: the segments closed by a rotation, newest first
    nextSeg,        \* history: the number of the next segment to be created
    nextMsg,        \* history: the number of the next message to be logged
    \* ---- TelegramHandler (handlers/telegram.handler.ts)
    credsOk,        \* #botToken and #chatID are both non-empty
    hasConnectToTg, \* TelegramHandler.#hasConnectToTg
    isRunQueue,     \* TelegramHandler.#isRunQueue
    queue,          \* TelegramHandler.#queue
    timers,         \* the number of pending setTimeout(() => this.tapQueue(), 100)
    probes,         \* the number of getMe requests that have not settled
    inflight,       \* the messages of the sendMessage requests that have not settled
    setups,         \* history: the number of setup() calls
    attempted,      \* history: the messages whose sendMessage request was started
    dropped,        \* history: the messages dequeued without a request
    failed,         \* history: the ids of the messages whose request rejected
    probeFailed,    \* history: a getMe request has failed
    lastSettle,     \* history: how the latest request settled, until the next tick
    nextId,         \* history: the number of the next message passed to log
    \* ---- BaseHandler.formatCustom and Logger.msgFormat
    format,         \* the template: a sequence of literal texts and {name} matches
    args,           \* the arguments of msgFormat
    logRecord,      \* the record of formatCustom
    formatted,      \* the result of formatCustom(format, logRecord)
    message,        \* the result of msgFormat(format, args)
    ran,            \* which of the formatting operations have been applied
    console,        \* a ConsoleHandler: its formatter and its noColor
    split,          \* the result of splitFormatter(formatter)
    printed         \* what ConsoleHandler hands to log() for logRecord

loggerVars == <<loggerLevel, handlers, faulty, returnResult, calls, logged, last>>

rotateVars == <<mode, maxBytes, maxBackupCount, currentFileSize, fileOpen, listener,
                rstate, buf, threw, fs, fs0, fsAtSetup, rotations, closed, nextSeg,
                nextMsg>>

remoteVars == <<credsOk, hasConnectToTg, isRunQueue, queue, timers, probes, inflight,
                setups, attempted, dropped, failed, probeFailed, lastSettle, nextId>>

formatVars == <<format, args, logRecord, formatted, message, ran, console, split,
                printed>>

vars == <<loggerVars, rotateVars, remoteVars, formatVars>>

(***************************************************************************)
(* Bounds                                                                  *)
(***************************************************************************)
MaxHandlers == 2
MaxCalls == 2
MaxBackup == 3      \* maxBackupCount is drawn from 0..MaxBackup
MaxBytes == 2       \* maxBytes is drawn from 0..MaxBytes
MaxLogs == 4        \* log calls on the rotating file handler
MaxMsgs == 3        \* log calls on the Telegram handler
MaxSetups == 2      \* setup calls on the Telegram handler
MaxTokens == 2      \* pieces of a template
MaxArgs == 2        \* arguments of msgFormat

(***************************************************************************)
(* Each specification leaves the parts it is not about in these states.    *)
(***************************************************************************)
NoFile == [seg |-> 0, msgs |-> <<>>, exists |-> FALSE]

\* _buf before super.setup() has run.
NoBuf == [exists |-> FALSE, bytes |-> 0, err |-> FALSE]

MaxIdx == MaxBackup + 1

IdleLogger ==
    /\ loggerLevel = 0
    /\ handlers = <<>>
    /\ faulty = 0
    /\ returnResult = FALSE
    /\ calls = <<>>
    /\ logged = <<>>
    /\ last = <<>>

IdleRotate ==
    /\ mode = "a"
    /\ maxBytes = 0
    /\ maxBackupCount = 0
    /\ currentFileSize = 0
    /\ fileOpen = FALSE
    /\ listener = FALSE
    /\ rstate = "idle"
    /\ buf = NoBuf
    /\ threw = "none"
    /\ fs = <<>>
    /\ fs0 = <<>>
    /\ fsAtSetup = <<>>
    /\ rotations = 0
    /\ closed = <<>>
    /\ nextSeg = 0
    /\ nextMsg = 0

IdleFormat ==
    /\ format = <<>>
    /\ args = <<>>
    /\ logRecord = <<>>
    /\ formatted = <<>>
    /\ message = <<>>
    /\ ran = {}
    /\ console = <<>>
    /\ split = <<>>
    /\ printed = <<>>

IdleRemote ==
    /\ credsOk = FALSE
    /\ hasConnectToTg = FALSE
    /\ isRunQueue = FALSE
    /\ queue = <<>>
    /\ timers = 0
    /\ probes = 0
    /\ inflight = <<>>
    /\ setups = 0
    /\ attempted = <<>>
    /\ dropped = {}
    /\ failed = {}
    /\ probeFailed = FALSE
    /\ lastSettle = "none"
    /\ nextId = 0

(***************************************************************************)
(* levels.ts (LogLevels): NOTSET < DEBUG < INFO < WARNING < ERROR <        *)
(* CRITICAL, with the numeric values of the Deno std log levels.           *)
(***************************************************************************)
NOTSET == 0
DEBUG == 10
INFO == 20
WARNING == 30
ERROR == 40
CRITICAL == 50

LogLevels == {NOTSET, DEBUG, INFO, WARNING, ERROR, CRITICAL}

\* The levels of the Logger methods debug/info/warning/error/critical.
MethodLevels == {DEBUG, INFO, WARNING, ERROR, CRITICAL}

(***************************************************************************)
(* util/helpers.ts                                                         *)
(***************************************************************************)
\* The values a caller passes as message argument: a string or a function
\* that would produce a string when called.
StrArg == [kind |-> "str", text |-> "foo"]
FnArg == [kind |-> "fn", text |-> "expensive"]
ArgValues == {StrArg, FnArg}

\* A variant of asString that calls a function argument to get its text.
asString_Eager(data) ==
    IF data.kind = "str"
        THEN [text |-> data.text, invoked |-> FALSE]
        ELSE [text |-> data.text, invoked |-> TRUE]

\* Deno.inspect(data) of a value that is not a string.
inspect(data) ==
    IF data.kind = "fn" THEN "[Function]"
    ELSE IF data.kind = "obj" THEN "{ ... }"
    ELSE data.kind

\* asString(data): a string is itself, anything else is Deno.inspect(data);
\* inspecting a function prints it and does not call it.
asString(data) ==
    IF data.kind = "str"
        THEN [text |-> data.text, invoked |-> FALSE]
        ELSE [text |-> inspect(data), invoked |-> FALSE]

\* isObject(o): o instanceof Object && o.constructor === Object
isObject(o) == o.kind = "obj"

\* argsToString(args) for a single argument: asString(args[0]).trim().
argsToString(arg) == asString(arg)

(***************************************************************************)
(* logger.ts: Logger._log, handlers.ts: BaseHandler.handle                 *)
(***************************************************************************)
\* `if (this.level > level) return ...` of Logger._log: TRUE when the call
\* passes the gate.
LoggerGateOpen(threshold, level) == ~(threshold > level)

\* A variant of the handler gate that also rejects a record at the threshold.
HandlerGateOpen_Strict(threshold, level) == ~(threshold >= level)

\* `if (this.level > logRecord.level) return;` of BaseHandler.handle.
HandlerGateOpen(threshold, level) == ~(threshold > level)

\* BaseHandler.handle(record) on handler h: whether log() is called, and
\* whether the call raises (the faulty handler's log() throws).
handle(h, level) ==
    LET open == HandlerGateOpen(handlers[h], level)
    IN  [logs |-> open, raises |-> open /\ h = faulty]

\* this.#handlers.forEach(handler => handler.handle(record)), from handler h
\* on: an exception leaves the loop.
RECURSIVE forEachHandle(_, _)
forEachHandle(h, level) ==
    IF h > Len(handlers)
        THEN [handled |-> {}, logs |-> {}, raised |-> FALSE]
        ELSE LET r == handle(h, level)
             IN  IF r.raises
                    THEN [handled |-> {h},
                          logs |-> IF r.logs THEN {h} ELSE {},
                          raised |-> TRUE]
                    ELSE LET rest == forEachHandle(h + 1, level)
                         IN  [handled |-> {h} \cup rest.handled,
                              logs |-> (IF r.logs THEN {h} ELSE {}) \cup rest.logs,
                              raised |-> rest.raised]

NoReturn == [kind |-> "undefined"]

\* Logger._log(level, arg): the outcome of one call.
_log(level, arg) ==
    IF ~LoggerGateOpen(loggerLevel, level)
        THEN LET s == argsToString(arg)
             IN  [level |-> level, arg |-> arg, built |-> FALSE,
                  fnInvoked |-> returnResult /\ s.invoked,
                  handled |-> {}, logs |-> {}, raised |-> FALSE,
                  ret |-> IF returnResult
                             THEN [kind |-> "string", text |-> s.text]
                             ELSE NoReturn]
        ELSE LET s == argsToString(arg)
                 d == forEachHandle(1, level)
             IN  [level |-> level, arg |-> arg, built |-> TRUE,
                  fnInvoked |-> s.invoked,
                  handled |-> d.handled, logs |-> d.logs, raised |-> d.raised,
                  ret |-> IF d.raised
                             THEN [kind |-> "thrown"]
                             ELSE IF returnResult
                                     THEN [kind |-> "string", text |-> s.text]
                                     ELSE NoReturn]

NoCall == [level |-> NOTSET, arg |-> StrArg, built |-> FALSE, fnInvoked |-> FALSE,
           handled |-> {}, logs |-> {}, raised |-> FALSE, ret |-> NoReturn]

HandlerLists == UNION {[1..n -> LogLevels] : n \in 0..MaxHandlers}

InitLogger ==
    /\ loggerLevel \in LogLevels
    /\ handlers \in HandlerLists
    /\ faulty \in 0..Len(handlers)
    /\ returnResult \in BOOLEAN
    /\ calls = <<>>
    /\ logged = [h \in 1..Len(handlers) |-> <<>>]
    /\ last = NoCall
    /\ IdleRotate
    /\ IdleRemote
    /\ IdleFormat

\* logger.debug / info / warning / error / critical (arg)
LogCall(level, arg) ==
    /\ Len(calls) < MaxCalls
    /\ last' = _log(level, arg)
    /\ calls' = Append(calls, level)
    /\ logged' = [h \in 1..Len(handlers) |->
                    IF h \in last'.logs THEN Append(logged[h], level) ELSE logged[h]]
    /\ UNCHANGED <<loggerLevel, handlers, faulty, returnResult>>
    /\ UNCHANGED <<rotateVars, remoteVars, formatVars>>

NextLogger == \E level \in MethodLevels, arg \in ArgValues : LogCall(level, arg)

SpecLogger == InitLogger /\ [][NextLogger]_vars

(***************************************************************************)
(* handlers.ts: FileHandler and RotatingFileHandler                        *)
(*                                                                         *)
(* A file is [seg, msgs, exists]: msgs are the messages written to it, in  *)
(* order (bytes still in the BufWriterSync buffer included: every close is *)
(* preceded by a flush), each [id, size] with size = byteLength + 1 for    *)
(* the "\n"; seg names the segment. A file that was there before setup has *)
(* seg <= 0 and holds chunks with id 0.                                    *)
(***************************************************************************)
\* byteLength of the messages passed to log
MsgLens == {0, 1, 2}

Old(size) == [id |-> 0, size |-> size]

\* What filename may hold before setup.
OldActive == {NoFile,
              [seg |-> 0, msgs |-> <<Old(1)>>, exists |-> TRUE],
              [seg |-> 0, msgs |-> <<Old(2), Old(2)>>, exists |-> TRUE]}

\* The files before setup: filename holds one of OldActive, and any of the
\* filename.i exists.
OldFiles ==
    {[i \in 0..MaxIdx |-> IF i = 0 THEN a
                          ELSE IF i \in B
                                  THEN [seg |-> 0 - i, msgs |-> <<Old(1)>>, exists |-> TRUE]
                                  ELSE NoFile] :
        a \in OldActive, B \in SUBSET (1..MaxIdx)}

RECURSIVE SumSizes(_)
SumSizes(msgs) == IF msgs = <<>> THEN 0 ELSE Head(msgs).size + SumSizes(Tail(msgs))

\* (await Deno.stat(name)).size
FileSize(f) == SumSizes(f.msgs)

\* A file just created by Deno.open / Deno.openSync.
Fresh(seg) == [seg |-> seg, msgs |-> <<>>, exists |-> TRUE]

\* FileHandler._openOptions, by mode (constructor, lines 195-201).
createNew == mode = "x"
truncate == mode # "a"

\* Deno.open(filename, _openOptions) fails when createNew finds the file.
OpenFails(f) == createNew /\ f[0].exists

\* The files after a successful Deno.open(filename, _openOptions).
Opened(f) ==
    IF f[0].exists /\ ~truncate
        THEN f
        ELSE [f EXCEPT ![0] = Fresh(nextSeg)]

\* The indices the loop of rotateLogFiles visits, with the loop started one
\* higher.
ShiftIndices_FromCount == [k \in 1..(maxBackupCount + 1) |-> maxBackupCount + 1 - k]

\* The indices the loop of rotateLogFiles visits, in ascending order.
ShiftIndices_Ascending == [k \in 1..maxBackupCount |-> k - 1]

\* for (let i = this.#maxBackupCount - 1; i >= 0; i--): the indices visited.
ShiftIndices == [k \in 1..maxBackupCount |-> maxBackupCount - k]

\* The body of the loop for each index of idxs in turn:
\* if (existsSync(source)) Deno.renameSync(source, dest).
RECURSIVE RenameAll(_, _)
RenameAll(f, idxs) ==
    IF idxs = <<>>
        THEN f
        ELSE LET i == Head(idxs)
                 g == IF f[i].exists
                        THEN [f EXCEPT ![i + 1] = f[i], ![i] = NoFile]
                        ELSE f
             IN  RenameAll(g, Tail(idxs))

\* rotateLogFiles(): flush, close, rename, and open filename again.
rotateLogFiles(f) == Opened(RenameAll(f, ShiftIndices))

\* The test of log() with the size of the message left out.
ShouldRotate_NoSize(size) == currentFileSize > maxBytes

\* if (this.#currentFileSize + msgByteLength > this.#maxBytes)
ShouldRotate(size) == currentFileSize + size > maxBytes

\* The files with msg written at the start of filename.
Written_AtFront(f, msg) == [f EXCEPT ![0].msgs = <<msg>> \o @]

\* The files with msg written at the end of filename.
Written(f, msg) == [f EXCEPT ![0].msgs = Append(@, msg)]

InitRotate ==
    /\ mode \in {"a", "w", "x"}
    /\ maxBytes \in 0..MaxBytes
    /\ maxBackupCount \in 0..MaxBackup
    /\ currentFileSize = 0
    /\ fileOpen = FALSE
    /\ listener = FALSE
    /\ rstate = "new"
    /\ buf = NoBuf
    /\ threw = "none"
    /\ fs \in OldFiles
    /\ fs0 = fs
    /\ fsAtSetup = fs
    /\ rotations = 0
    /\ closed = <<>>
    /\ nextSeg = 1
    /\ nextMsg = 1
    /\ IdleLogger
    /\ IdleRemote
    /\ IdleFormat

\* The loop of mode "w" that stops one index early.
RemoveBackups_SkipLast(f) ==
    [i \in 0..MaxIdx |-> IF i \in 1..(maxBackupCount - 1) THEN NoFile ELSE f[i]]

\* for (i = 1..maxBackupCount) if (await exists(...)) await Deno.remove(...)
RemoveBackups(f) ==
    [i \in 0..MaxIdx |-> IF i \in 1..maxBackupCount THEN NoFile ELSE f[i]]

\* new BufWriterSync(this._file)
NewBuf == [exists |-> TRUE, bytes |-> 0, err |-> FALSE]

\* The loop of mode "x" that stops one index early.
BackupFound_SkipLast(f) == \E i \in 1..(maxBackupCount - 1) : f[i].exists

\* for (i = 1..maxBackupCount) if (await exists(filename.i)): mode "x" throws.
BackupFound(f) == \E i \in 1..maxBackupCount : f[i].exists

\* setup() throws before anything is opened: maxBytes < 1, maxBackupCount < 1,
\* or Deno.open fails. this.destroy() leaves no file and no listener.
SetupRejects ==
    /\ rstate = "new"
    /\ UNCHANGED <<loggerVars, remoteVars, formatVars>>
    /\ maxBytes < 1 \/ maxBackupCount < 1 \/ OpenFails(fs)
    /\ rstate' = "failed"
    /\ UNCHANGED <<mode, maxBytes, maxBackupCount, currentFileSize, fileOpen, listener,
                   buf, threw, fs, fs0, fsAtSetup, rotations, closed, nextSeg, nextMsg>>

\* setup() up to the end of `await super.setup()`: the thresholds are valid,
\* filename is opened, _buf is made and the unload listener is added.
SetupOpen ==
    /\ rstate = "new"
    /\ UNCHANGED <<loggerVars, remoteVars, formatVars>>
    /\ maxBytes >= 1 /\ maxBackupCount >= 1 /\ ~OpenFails(fs)
    /\ fs' = Opened(fs)
    /\ nextSeg' = nextSeg + 1
    /\ fileOpen' = TRUE
    /\ listener' = TRUE
    /\ buf' = NewBuf
    /\ rstate' = "opened"
    /\ UNCHANGED <<mode, maxBytes, maxBackupCount, currentFileSize, threw,
                   fs0, fsAtSetup, rotations, closed, nextMsg>>

\* setup() in mode "x" throws after super.setup(): filename has been created,
\* a backup exists, this.destroy() closes the file and removes the listener.
SetupBackupExists ==
    /\ rstate = "opened"
    /\ UNCHANGED <<loggerVars, remoteVars, formatVars>>
    /\ mode = "x"
    /\ BackupFound(fs)
    /\ fileOpen' = FALSE
    /\ listener' = FALSE
    /\ rstate' = "failed"
    /\ UNCHANGED <<mode, maxBytes, maxBackupCount, currentFileSize, buf, threw, fs,
                   fs0, fsAtSetup, rotations, closed, nextSeg, nextMsg>>

\* setup() in mode "w": Deno.remove of the first backup found throws (it is a
\* directory that is not empty, or may not be removed); the error leaves
\* setup() as it is, nothing is closed.
SetupRemoveFails ==
    /\ rstate = "opened"
    /\ UNCHANGED <<loggerVars, remoteVars, formatVars>>
    /\ mode = "w"
    /\ BackupFound(fs)
    /\ rstate' = "failed"
    /\ UNCHANGED <<mode, maxBytes, maxBackupCount, currentFileSize, fileOpen, listener,
                   buf, threw, fs, fs0, fsAtSetup, rotations, closed, nextSeg, nextMsg>>

\* A setup that never reads the size of filename.
SeededSize_Unseeded(f) == currentFileSize

\* if (this._mode === "a") this.#currentFileSize = (await Deno.stat(filename)).size
SeededSize(f) == IF mode = "a" THEN FileSize(f[0]) ELSE currentFileSize

\* setup() returns: in mode "w" the backups are removed, in mode "x" none
\* was found, in mode "a" the size of filename is read.
SetupOk ==
    /\ rstate = "opened"
    /\ UNCHANGED <<loggerVars, remoteVars, formatVars>>
    /\ mode = "x" => ~BackupFound(fs)
    /\ LET after == IF mode = "w" THEN RemoveBackups(fs) ELSE fs
       IN  /\ fs' = after
           /\ fsAtSetup' = after
           /\ currentFileSize' = SeededSize(after)
    /\ rstate' = "ready"
    /\ UNCHANGED <<mode, maxBytes, maxBackupCount, fileOpen, listener, buf, threw,
                   fs0, rotations, closed, nextSeg, nextMsg>>

\* log(msg) on the handler that was set up, msg of byteLength len.
RotLog(len) ==
    /\ rstate = "ready"
    /\ UNCHANGED <<loggerVars, remoteVars, formatVars>>
    /\ nextMsg <= MaxLogs
    /\ LET size == len + 1
           msg == [id |-> nextMsg, size |-> size]
       IN  IF ShouldRotate(size)
            THEN /\ fs' = Written(rotateLogFiles(fs), msg)
                 /\ currentFileSize' = 0 + size
                 /\ buf' = [NewBuf EXCEPT !.bytes = size]
                 /\ rotations' = rotations + 1
                 /\ closed' = <<fs[0]>> \o closed
                 /\ nextSeg' = nextSeg + 1
            ELSE /\ fs' = Written(fs, msg)
                 /\ currentFileSize' = currentFileSize + size
                 /\ buf' = [buf EXCEPT !.bytes = @ + size]
                 /\ UNCHANGED <<rotations, closed, nextSeg>>
    /\ nextMsg' = nextMsg + 1
    /\ UNCHANGED <<mode, maxBytes, maxBackupCount, fileOpen, listener, rstate, threw,
                   fs0, fsAtSetup>>

NextRotate ==
    \/ SetupRejects
    \/ SetupOpen
    \/ SetupBackupExists
    \/ SetupRemoveFails
    \/ SetupOk
    \/ \E len \in MsgLens : RotLog(len)

SpecRotate == InitRotate /\ [][NextRotate]_vars

\* FileHandler.flush(): if (this._buf?.buffered() > 0) this._buf.flush().
\* BufWriterSync.flush writes to the file and throws when the file is closed,
\* keeping the bytes and the error.
FlushThrows == buf.exists /\ buf.bytes > 0 /\ ~fileOpen

\* destroy() outside setup: flush(), then _file?.close(), _file = undefined
\* and removeEventListener. A throw of flush() leaves destroy() at once.
Destroy ==
    /\ rstate \in {"new", "ready", "failed", "destroyed"}
    /\ UNCHANGED <<loggerVars, remoteVars, formatVars>>
    /\ IF FlushThrows
          THEN /\ threw' = "destroy"
               /\ buf' = [buf EXCEPT !.err = TRUE]
               /\ UNCHANGED <<fileOpen, listener, rstate>>
          ELSE /\ threw' = "none"
               /\ buf' = [buf EXCEPT !.bytes = 0]
               /\ fileOpen' = FALSE
               /\ listener' = FALSE
               /\ rstate' = IF rstate = "ready" THEN "destroyed" ELSE rstate
    /\ UNCHANGED <<mode, maxBytes, maxBackupCount, currentFileSize, fs, fs0, fsAtSetup,
                   rotations, closed, nextSeg, nextMsg>>

\* log(msg) on a handler with no open file (never set up, setup failed, or
\* destroyed). Without _buf the call throws; with the _buf of a closed file the
\* bytes are buffered, unless the handler wants to rotate (rotateLogFiles
\* flushes and closes, which throws) or an earlier flush has failed.
LogUnready(len) ==
    /\ rstate \in {"new", "failed", "destroyed"}
    /\ ~fileOpen
    /\ nextMsg <= MaxLogs
    /\ UNCHANGED <<loggerVars, remoteVars, formatVars>>
    /\ LET size == len + 1
       IN  IF ~buf.exists
             THEN /\ threw' = "log"
                  /\ UNCHANGED <<buf, currentFileSize>>
             ELSE IF ShouldRotate(size)
                    THEN /\ threw' = "log"
                         /\ buf' = [buf EXCEPT !.err = @ \/ buf.bytes > 0]
                         /\ UNCHANGED currentFileSize
                    ELSE IF buf.err
                           THEN /\ threw' = "log"
                                /\ UNCHANGED <<buf, currentFileSize>>
                           ELSE /\ threw' = "none"
                                /\ buf' = [buf EXCEPT !.bytes = @ + size]
                                /\ currentFileSize' = currentFileSize + size
    /\ nextMsg' = nextMsg + 1
    /\ UNCHANGED <<mode, maxBytes, maxBackupCount, fileOpen, listener, rstate,
                   fs, fs0, fsAtSetup, rotations, closed, nextSeg>>

NextRotateLife ==
    \/ NextRotate
    \/ Destroy
    \/ \E len \in MsgLens : LogUnready(len)

\* The rotating file handler with destroy() and with log() outside the
\* ready state.
SpecRotateLife == InitRotate /\ [][NextRotateLife]_vars

(***************************************************************************)
(* handlers/telegram.handler.ts: TelegramHandler                           *)
(*                                                                         *)
(* A message is [id, text, off]: text is the string passed to log ("" is   *)
(* the empty string), id numbers the log calls, off records that the sink  *)
(* was not connected when the message was logged. Timer callbacks and the  *)
(* reactions of a settled fetch run one at a time, each to completion.     *)
(***************************************************************************)
Texts == {"", "<pre>m</pre>"}

InitRemote ==
    /\ credsOk \in BOOLEAN
    /\ hasConnectToTg = FALSE
    /\ isRunQueue = FALSE
    /\ queue = <<>>
    /\ timers = 0
    /\ probes = 0
    /\ inflight = <<>>
    /\ setups = 0
    /\ attempted = <<>>
    /\ dropped = {}
    /\ failed = {}
    /\ probeFailed = FALSE
    /\ lastSettle = "none"
    /\ nextId = 1
    /\ IdleLogger
    /\ IdleRotate
    /\ IdleFormat

\* setup() without botToken or chatID: throws, no request is made.
TgSetupThrows ==
    /\ setups < MaxSetups
    /\ ~credsOk
    /\ setups' = setups + 1
    /\ UNCHANGED <<credsOk, hasConnectToTg, isRunQueue, queue, timers, probes, inflight,
                   attempted, dropped, failed, lastSettle, nextId>>
    /\ UNCHANGED probeFailed
    /\ UNCHANGED <<loggerVars, rotateVars, formatVars>>

\* setup(): fetch(getMe) is started and setup returns.
TgSetup ==
    /\ setups < MaxSetups
    /\ credsOk
    /\ setups' = setups + 1
    /\ probes' = probes + 1
    /\ UNCHANGED <<credsOk, hasConnectToTg, isRunQueue, queue, timers, inflight,
                   attempted, dropped, failed, lastSettle, nextId>>
    /\ UNCHANGED probeFailed
    /\ UNCHANGED <<loggerVars, rotateVars, formatVars>>

\* The getMe request resolves with status 200: the then-callback of setup().
ProbeOk ==
    /\ probes > 0
    /\ probes' = probes - 1
    /\ hasConnectToTg' = TRUE
    /\ timers' = timers + 1
    /\ UNCHANGED <<credsOk, isRunQueue, queue, inflight, setups,
                   attempted, dropped, failed, lastSettle, nextId>>
    /\ UNCHANGED probeFailed
    /\ UNCHANGED <<loggerVars, rotateVars, formatVars>>

\* The getMe request rejects, or resolves with another status: the
\* catch-callback of setup() prints the error.
ProbeFail ==
    /\ probes > 0
    /\ probes' = probes - 1
    /\ UNCHANGED <<credsOk, hasConnectToTg, isRunQueue, queue, timers, inflight, setups,
                   attempted, dropped, failed, lastSettle, nextId>>
    /\ probeFailed' = TRUE
    /\ UNCHANGED <<loggerVars, rotateVars, formatVars>>

\* A push that puts the message at the head of the queue.
Enqueue_Front(q, msg) == <<msg>> \o q

\* this.#queue.push(msg)
Enqueue(q, msg) == Append(q, msg)

\* A log that sets the timer whether or not the sink is connected.
ScheduleOnLog_Always == TRUE

\* if (this.#hasConnectToTg) setTimeout(() => this.tapQueue(), 100)
ScheduleOnLog == hasConnectToTg

\* log(msg)
TgLog(text) ==
    /\ nextId <= MaxMsgs
    /\ queue' = Enqueue(queue, [id |-> nextId, text |-> text, off |-> ~hasConnectToTg])
    /\ timers' = IF ScheduleOnLog THEN timers + 1 ELSE timers
    /\ nextId' = nextId + 1
    /\ UNCHANGED <<credsOk, hasConnectToTg, isRunQueue, probes, inflight, setups,
                   attempted, dropped, failed, lastSettle>>
    /\ UNCHANGED probeFailed
    /\ UNCHANGED <<loggerVars, rotateVars, formatVars>>

\* The guard of tapQueue() without the in-flight flag.
TapIdle_NoFlag == queue = <<>> \/ ~hasConnectToTg

\* if (this.#isRunQueue || !this.#queue.length || !this.#hasConnectToTg) return;
TapIdle == isRunQueue \/ queue = <<>> \/ ~hasConnectToTg

\* A dequeue that takes the newest message.
Dequeue_Pop(q) == [msg |-> q[Len(q)], rest |-> SubSeq(q, 1, Len(q) - 1)]

\* const msg = this.#queue.shift();
Dequeue(q) == [msg |-> Head(q), rest |-> Tail(q)]

\* A test of the dequeued message that takes every message as a text to send.
IsFalsy_Never(msg) == FALSE

\* if (!msg): the dequeued string is empty.
IsFalsy(msg) == msg.text = ""

\* A timer fires: tapQueue().
TapQueue ==
    /\ timers > 0
    /\ lastSettle' = "none"
    /\ IF TapIdle
        THEN /\ timers' = timers - 1
             /\ UNCHANGED <<isRunQueue, queue, inflight, attempted, dropped>>
        ELSE LET d == Dequeue(queue)
             IN  /\ queue' = d.rest
                 /\ IF IsFalsy(d.msg)
                      THEN \* if (!msg) { setTimeout(...); return; }
                           /\ timers' = (timers - 1) + 1
                           /\ dropped' = dropped \cup {d.msg}
                           /\ UNCHANGED <<isRunQueue, inflight, attempted>>
                      ELSE /\ timers' = timers - 1
                           /\ isRunQueue' = TRUE
                           /\ inflight' = Append(inflight, d.msg)
                           /\ attempted' = Append(attempted, d.msg)
                           /\ UNCHANGED dropped
    /\ UNCHANGED <<credsOk, hasConnectToTg, probes, setups, failed, nextId>>
    /\ UNCHANGED probeFailed
    /\ UNCHANGED <<loggerVars, rotateVars, formatVars>>

Without(q, k) == SubSeq(q, 1, k - 1) \o SubSeq(q, k + 1, Len(q))

\* A completion that puts the message back at the head of the queue.
QueueAfterSend_Requeue(q, msg, ok) == IF ok THEN q ELSE <<msg>> \o q

\* The queue after the request for msg settled: .catch prints the error,
\* .finally sets the flag and the timer; neither touches the queue.
QueueAfterSend(q, msg, ok) == q

\* A completion that keeps the flag when the request rejected.
FlagAfterSend_Stuck(ok) == IF ok THEN FALSE ELSE isRunQueue

\* this.#isRunQueue = false (in .finally)
FlagAfterSend(ok) == FALSE

\* A completion that sets no timer.
TimersAfterSend_None(t) == t

\* setTimeout(() => this.tapQueue(), 100) (in .finally)
TimersAfterSend(t) == t + 1

\* The sendMessage request for inflight[k] settles (ok: it resolved), and its
\* .catch and .finally callbacks run.
SendSettles(k, ok) ==
    /\ inflight' = Without(inflight, k)
    /\ queue' = QueueAfterSend(queue, inflight[k], ok)
    /\ isRunQueue' = FlagAfterSend(ok)
    /\ timers' = TimersAfterSend(timers)
    /\ failed' = IF ok THEN failed ELSE failed \cup {inflight[k].id}
    /\ lastSettle' = IF ok THEN "ok" ELSE "failed"
    /\ UNCHANGED <<credsOk, hasConnectToTg, probes, setups, attempted, dropped, nextId>>
    /\ UNCHANGED probeFailed
    /\ UNCHANGED <<loggerVars, rotateVars, formatVars>>

SendResolves == \E k \in 1..Len(inflight) : SendSettles(k, TRUE)

SendRejects == \E k \in 1..Len(inflight) : SendSettles(k, FALSE)

NextRemote ==
    \/ TgSetupThrows
    \/ TgSetup
    \/ ProbeOk
    \/ ProbeFail
    \/ \E text \in Texts : TgLog(text)
    \/ TapQueue
    \/ SendResolves
    \/ SendRejects

SpecRemote == InitRemote /\ [][NextRemote]_vars

\* The Telegram handler when every timer that is set fires and every
\* sendMessage request settles.
SpecRemoteLive ==
    /\ SpecRemote
    /\ WF_vars(TapQueue)
    /\ WF_vars(SendResolves \/ SendRejects)

(***************************************************************************)
(* handlers.ts: BaseHandler.formatCustom, logger.ts: Logger.msgFormat      *)
(*                                                                         *)
(* A template is a sequence of pieces: the matches of /{(\w+)}/g, each     *)
(* with the name it captures, and the texts between them. A name is its    *)
(* leading decimal digits and the word characters after them, which is     *)
(* what parseInt tells apart. A value is null (or undefined), a string, a  *)
(* function or a plain object with its own properties.                     *)
(***************************************************************************)
NoName == [lead |-> <<>>, rest |-> ""]
Word(w) == [lead |-> <<>>, rest |-> w]
Digit(d) == [lead |-> <<d>>, rest |-> ""]
Digit1st == [lead |-> <<1>>, rest |-> "st"]

\* The names of the placeholders of the templates.
Names == {Word("msg"), Word("category"), Word("datetime"), Word("constructor"),
          Digit(0), Digit(1), Digit(2), Digit1st}

\* A text of the template or of the result that is not a match.
Text(t) == [ph |-> FALSE, name |-> NoName, text |-> t]

\* The text {name} of the template, a match of the regular expression.
Match(n) == [ph |-> TRUE, name |-> n, text |-> ""]

Templates ==
    UNION {[1..n -> {Match(nm) : nm \in Names} \cup {Text("x")}] : n \in 0..MaxTokens}

Null == [kind |-> "null", text |-> "", props |-> <<>>]
Str(t) == [kind |-> "str", text |-> t, props |-> <<>>]
Fn == [kind |-> "fn", text |-> "", props |-> <<>>]
Obj(p) == [kind |-> "obj", text |-> "", props |-> p]

\* The object { msg: "v", "1st": "k", category: null }.
SomeObj ==
    Obj([n \in {Word("msg"), Digit1st, Word("category")} |->
            IF n = Word("msg") THEN Str("v")
            ELSE IF n = Digit1st THEN Str("k")
            ELSE Null])

\* The argument lists passed to msgFormat.
ArgLists == UNION {[1..n -> {Null, Str("a"), Str(""), SomeObj}] : n \in 0..MaxArgs}

\* The records passed to formatCustom: msg is a string, category is a string
\* or null (options.category || null).
Records == {[msg |-> Str("m"), category |-> c] : c \in {Null, Str("c")}}

\* obj[p1]: an own property, or Object.prototype.constructor, or undefined.
GetProp(o, n) ==
    IF n \in DOMAIN o.props THEN o.props[n]
    ELSE IF n = Word("constructor") THEN Fn
    ELSE Null

\* args[i] of JavaScript: undefined past the end.
ArgAt(as, i) == IF i + 1 \in 1..Len(as) THEN as[i + 1] ELSE Null

NaN == 0 - 1

RECURSIVE DigitsValue(_, _)
DigitsValue(ds, acc) ==
    IF ds = <<>> THEN acc ELSE DigitsValue(Tail(ds), 10 * acc + Head(ds))

\* parseInt(p1): the number of the leading digits, NaN without any.
parseInt(n) == IF n.lead = <<>> THEN NaN ELSE DigitsValue(n.lead, 0)

\* String(value)
String(value) == IF value.kind = "str" THEN value.text ELSE inspect(value)

\* `if (value == null) return match;` with the value turned into nothing.
Interpolate_Blank(match, value, text) ==
    IF value.kind = "null" THEN Text("") ELSE Text(text)

\* `if (value == null) return match; return <the string of value>;`
Interpolate(match, value, text) ==
    IF value.kind = "null" THEN match ELSE Text(text)

\* The value formatCustom looks up for p1: the formatted date for "datetime",
\* else logRecord[p1].
CustomValue(n, rec) ==
    IF n = Word("datetime") THEN Str("2020-01-01")
    ELSE IF n = Word("msg") THEN rec.msg
    ELSE IF n = Word("category") THEN rec.category
    ELSE IF n = Word("constructor") THEN Fn
    ELSE Null

\* formatCustom(format, logRecord)
formatCustom(fmt, rec) ==
    [i \in 1..Len(fmt) |->
        IF fmt[i].ph
            THEN LET value == CustomValue(fmt[i].name, rec)
                 IN  Interpolate(fmt[i], value, String(value))
            ELSE fmt[i]]

\* The value msgFormat looks up for p1.
MsgValue(n, as) ==
    LET obj == IF isObject(ArgAt(as, 0)) THEN ArgAt(as, 0) ELSE Null
        p1Int == parseInt(n)
    IN  IF p1Int = NaN
            THEN IF obj # Null THEN GetProp(obj, n) ELSE Null
            ELSE IF p1Int <= Len(as) THEN ArgAt(as, p1Int) ELSE Null

\* msgFormat(format, args)
msgFormat(fmt, as) ==
    IF Len(as) = 0
        THEN fmt
        ELSE [i \in 1..Len(fmt) |->
                IF fmt[i].ph
                    THEN LET value == MsgValue(fmt[i].name, as)
                         IN  Interpolate(fmt[i], value, asString(value).text)
                    ELSE fmt[i]]

InitFormat ==
    /\ format \in Templates
    /\ args \in ArgLists
    /\ logRecord \in Records
    /\ formatted = <<>>
    /\ message = <<>>
    /\ ran = {}
    /\ console = <<>>
    /\ split = <<>>
    /\ printed = <<>>
    /\ IdleLogger
    /\ IdleRotate
    /\ IdleRemote

FormatCustom ==
    /\ "formatCustom" \notin ran
    /\ formatted' = formatCustom(format, logRecord)
    /\ ran' = ran \cup {"formatCustom"}
    /\ UNCHANGED <<format, args, logRecord, message, console, split, printed>>
    /\ UNCHANGED <<loggerVars, rotateVars, remoteVars>>

MsgFormat ==
    /\ "msgFormat" \notin ran
    /\ message' = msgFormat(format, args)
    /\ ran' = ran \cup {"msgFormat"}
    /\ UNCHANGED <<format, args, logRecord, formatted, console, split, printed>>
    /\ UNCHANGED <<loggerVars, rotateVars, remoteVars>>

NextFormat ==
    \/ FormatCustom
    \/ MsgFormat

SpecFormat == InitFormat /\ [][NextFormat]_vars

(***************************************************************************)
(* handlers.ts: BaseHandler.splitFormatter / formatAndPrefix / format and  *)
(* ConsoleHandler.format                                                   *)
(*                                                                         *)
(* Strings are sequences of pieces as above, with two more kinds of piece: *)
(* the line terminator, which the "." of a regular expression does not     *)
(* match, and the escape codes that the colour functions put around a      *)
(* string and stripColor removes.                                          *)
(***************************************************************************)
NL == Text("\n")

MsgMatch == Match(Word("msg"))

\* The string formatters of the console handlers; an empty string is
\* replaced by the default formatter in the constructor.
ConsoleTemplates ==
    UNION {[1..n -> {MsgMatch, Match(Word("category")), Text("x"), NL}] :
              n \in 1..MaxTokens}

\* A formatter that is a function of the record.
FormatterFunction(rec) == <<Text("fn:"), Text(rec.msg.text)>>

\* The handlers: formatter is a string (template) or a function.
Consoles ==
    {[isFunction |-> FALSE, formatter |-> t, noColor |-> c] :
        t \in ConsoleTemplates, c \in BOOLEAN}
    \cup {[isFunction |-> TRUE, formatter |-> <<>>, noColor |-> c] : c \in BOOLEAN}

ConsoleRecords ==
    {[msg |-> Str("m"), category |-> c, level |-> l] :
        c \in {Null, Str("c")}, l \in MethodLevels}

Code(c) == [ph |-> FALSE, name |-> NoName, text |-> c]
ColourCodes == {Code("ESC[1m"), Code("ESC[22m"), Code("ESC[31m"), Code("ESC[33m"),
                Code("ESC[34m"), Code("ESC[39m")}
bold(str) == <<Code("ESC[1m")>> \o str \o <<Code("ESC[22m")>>
red(str) == <<Code("ESC[31m")>> \o str \o <<Code("ESC[39m")>>
yellow(str) == <<Code("ESC[33m")>> \o str \o <<Code("ESC[39m")>>
blue(str) == <<Code("ESC[34m")>> \o str \o <<Code("ESC[39m")>>

IsText(piece) == piece \notin ColourCodes

\* stripColor(str): str without its escape codes.
stripColor(str) == SelectSeq(str, IsText)

MinOf(S) == CHOOSE x \in S : \A y \in S : x <= y
MaxOf(S) == CHOOSE x \in S : \A y \in S : x >= y

\* /(.*)({msg}.*)/g.exec(formatter): the match starts at the earliest place
\* it can, the start of the first line that holds {msg}; the first group is
\* greedy and takes the line up to its last {msg}; the second group is that
\* {msg} and the rest of the line. Without {msg} both are null.
splitFormatter(fmt) ==
    LET at == {i \in 1..Len(fmt) : fmt[i] = MsgMatch}
    IN  IF at = {}
            THEN [found |-> FALSE, prefix |-> <<>>, msg |-> <<>>]
            ELSE LET first == MinOf(at)
                     before == {j \in 1..(first - 1) : fmt[j] = NL}
                     after == {j \in (first + 1)..Len(fmt) : fmt[j] = NL}
                     lineStart == IF before = {} THEN 1 ELSE MaxOf(before) + 1
                     lineEnd == IF after = {} THEN Len(fmt) ELSE MinOf(after) - 1
                     lastMsg == MaxOf({i \in at : i <= lineEnd})
                 IN  [found |-> TRUE,
                      prefix |-> SubSeq(fmt, lineStart, lastMsg - 1),
                      msg |-> SubSeq(fmt, lastMsg, lineEnd)]

\* formatAndPrefix(logRecord): {msg} for a function formatter; else msg is ""
\* unless the split has a msg, and prefix is set only if the split has a
\* prefix that is not the empty string.
formatAndPrefix(h, rec) ==
    IF h.isFunction
        THEN [hasPrefix |-> FALSE, prefix |-> <<>>, msg |-> FormatterFunction(rec)]
        ELSE LET sp == splitFormatter(h.formatter)
             IN  [hasPrefix |-> sp.found /\ sp.prefix # <<>>,
                  prefix |-> IF sp.found /\ sp.prefix # <<>>
                                THEN formatCustom(sp.prefix, rec)
                                ELSE <<>>,
                  msg |-> IF sp.found THEN formatCustom(sp.msg, rec) ELSE <<>>]

\* BaseHandler.format(logRecord)
baseFormat(h, rec) ==
    IF h.isFunction THEN FormatterFunction(rec) ELSE formatCustom(h.formatter, rec)

\* formatAndPrefix.prefix + formatAndPrefix.msg: a prefix that was not set
\* is the string "undefined".
PrefixPlusMsg(fp) ==
    (IF fp.hasPrefix THEN fp.prefix ELSE <<Text("undefined")>>) \o fp.msg

\* ConsoleHandler.format(logRecord)
consoleFormat(h, rec) ==
    IF h.noColor
        THEN baseFormat(h, rec)
        ELSE LET fp == formatAndPrefix(h, rec)
                 truthy == fp.hasPrefix /\ fp.prefix # <<>>
             IN  IF rec.level = INFO
                     THEN (IF truthy THEN blue(fp.prefix) ELSE <<>>) \o fp.msg
                 ELSE IF rec.level = WARNING
                     THEN (IF truthy THEN yellow(fp.prefix) ELSE <<>>) \o fp.msg
                 ELSE IF rec.level = ERROR
                     THEN red(PrefixPlusMsg(fp))
                 ELSE IF rec.level = CRITICAL
                     THEN bold(red(PrefixPlusMsg(fp)))
                 ELSE <<>>

\* handle(logRecord) past its level gate: the string given to log().
handleText(h, rec) ==
    LET msg == consoleFormat(h, rec)
    IN  IF h.noColor THEN stripColor(msg) ELSE msg

InitConsole ==
    /\ console \in Consoles
    /\ logRecord \in ConsoleRecords
    /\ split = <<>>
    /\ printed = <<>>
    /\ formatted = <<>>
    /\ ran = {}
    /\ format = <<>>
    /\ args = <<>>
    /\ message = <<>>
    /\ IdleLogger
    /\ IdleRotate
    /\ IdleRemote

\* splitFormatter(this.formatter) of a handler with a string formatter
SplitFormatter ==
    /\ "splitFormatter" \notin ran
    /\ ~console.isFunction
    /\ split' = splitFormatter(console.formatter)
    /\ ran' = ran \cup {"splitFormatter"}
    /\ UNCHANGED <<format, args, logRecord, formatted, message, console, printed>>
    /\ UNCHANGED <<loggerVars, rotateVars, remoteVars>>

\* BaseHandler.format(logRecord) with the handler's formatter
BaseFormat ==
    /\ "format" \notin ran
    /\ formatted' = baseFormat(console, logRecord)
    /\ ran' = ran \cup {"format"}
    /\ UNCHANGED <<format, args, logRecord, message, console, split, printed>>
    /\ UNCHANGED <<loggerVars, rotateVars, remoteVars>>

\* ConsoleHandler.handle(logRecord)
ConsoleHandle ==
    /\ "handle" \notin ran
    /\ printed' = handleText(console, logRecord)
    /\ ran' = ran \cup {"handle"}
    /\ UNCHANGED <<format, args, logRecord, formatted, message, console, split>>
    /\ UNCHANGED <<loggerVars, rotateVars, remoteVars>>

NextConsole ==
    \/ SplitFormatter
    \/ BaseFormat
    \/ ConsoleHandle

SpecConsole == InitConsole /\ [][NextConsole]_vars

(***************************************************************************)
(* Claims about the Logger                                                 *)
(***************************************************************************)
\* The records of `calls` that pass the logger's gate and handler h's gate.
PassBoth(h) ==
    LET Pass(level) == level >= loggerLevel /\ level >= handlers[h]
    IN  SelectSeq(calls, Pass)

\* C1: a Logger with threshold T starts handing a record of level R to its
\* handlers iff R >= T; a handler with threshold T whose handle gets a record
\* of level R calls its log iff R >= T; and the first sink's log has been
\* called exactly for the calls that pass both gates, in call order (so a
\* logger at WARNING with one sink at WARNING that logs INFO then ERROR has
\* one log invocation, for ERROR).
C1_LevelGate ==
    /\ calls # <<>> =>
          /\ last.built <=> last.level >= loggerLevel
          /\ last.handled # {} <=> (last.level >= loggerLevel /\ handlers # <<>>)
          /\ \A h \in last.handled : h \in last.logs <=> last.level >= handlers[h]
          /\ last.logs \subseteq last.handled
    /\ handlers # <<>> => logged[1] = PassBoth(1)

C1_Witness ==
    /\ loggerLevel = WARNING
    /\ Len(handlers) = 1
    /\ handlers[1] = WARNING
    /\ calls = <<INFO, ERROR>>
    /\ logged[1] = <<ERROR>>

\* C2: when the Logger's gate rejects a call, a function passed as message is
\* not invoked, no LogRecord is built and no handler's handle is called.
C2_RejectedCallDoesNothing ==
    (calls # <<>> /\ loggerLevel > last.level) =>
        /\ ~last.fnInvoked
        /\ ~last.built
        /\ last.handled = {}
        /\ last.logs = {}

C2_Witness ==
    /\ calls # <<>>
    /\ loggerLevel > last.level
    /\ last.arg = FnArg
    /\ returnResult
    /\ handlers # <<>>

\* C10: when one sink's handle raises for a record, every other sink of the
\* logger still receives that record.
C10_ErrorDoesNotStopFanOut ==
    (calls # <<>> /\ last.built) => last.handled = 1..Len(handlers)

(***************************************************************************)
(* Claims about the rotating file handler                                  *)
(***************************************************************************)
\* The backups: the files filename.1 .. filename.maxBackupCount that exist.
Backups(f) == {i \in 1..maxBackupCount : f[i].exists}

Contiguous(f) == Backups(f) = 1..Cardinality(Backups(f))

\* The active segment is within maxBytes, or is one message that alone is
\* larger than maxBytes.
WithinBudget ==
    \/ FileSize(fs[0]) <= maxBytes
    \/ Len(fs[0].msgs) = 1 /\ fs[0].msgs[1].size > maxBytes

\* A log(msg) step rotates iff currentFileSize + size > maxBytes; when it does,
\* the segment that was active becomes filename.1 without msg and msg is the
\* only message of the new active segment; when it does not, msg is appended.
RotateBeforeWrite ==
    nextMsg' = nextMsg + 1 =>
        LET msg == fs'[0].msgs[Len(fs'[0].msgs)]
        IN  /\ msg.id = nextMsg
            /\ (currentFileSize + msg.size > maxBytes) <=> (rotations' = rotations + 1)
            /\ rotations' = rotations + 1 =>
                  /\ fs'[0].msgs = <<msg>>
                  /\ fs'[1] = fs[0]
            /\ rotations' = rotations =>
                  /\ fs'[0].msgs = Append(fs[0].msgs, msg)
                  /\ fs'[0].seg = fs[0].seg

\* C3 as claimed: in every state of a set-up sink the active segment is within
\* maxBytes unless it is one message that alone exceeds maxBytes.
C3_NeverExceedsMaxBytes == rstate = "ready" => WithinBudget

\* C3: after at least one log(msg) call on a set-up sink the active segment
\* never exceeds maxBytes, except when it is exactly one message whose own
\* size exceeds maxBytes (before the first call it is what setup found); and
\* whenever currentFileSize + size > maxBytes the rotation happens before the
\* message is written, and the message goes to the fresh segment.
C3_NeverExceedsMaxBytesOnceLogged ==
    /\ []((rstate = "ready" /\ nextMsg > 1) => WithinBudget)
    /\ []((rstate = "ready" /\ nextMsg = 1) => fs[0] = fsAtSetup[0])
    /\ [][RotateBeforeWrite]_vars

C3_Witness ==
    /\ rstate = "ready"
    /\ nextMsg > 2
    /\ rotations >= 1
    /\ Len(fs[0].msgs) = 1
    /\ FileSize(fs[0]) > maxBytes

\* C4 as claimed: after a rotation the backups' indices are contiguous from 1
\* and backup 1 is the segment that was active before the latest rotation.
C4_BackupsContiguous ==
    (rstate = "ready" /\ rotations >= 1) =>
        /\ Cardinality(Backups(fs)) <= maxBackupCount
        /\ Contiguous(fs)
        /\ fs[1] = Head(closed)

\* C4: after any number of rotations no file above filename.maxBackupCount has
\* been created or changed, the backups' indices are contiguous from 1 when
\* they were so at the end of setup or when maxBackupCount rotations have
\* happened, and backup 1 is the segment that was active before the latest
\* rotation.
C4_BackupsContiguousUnlessGapAtSetup ==
    rstate = "ready" =>
        /\ \A i \in (maxBackupCount + 1)..MaxIdx : fs[i] = fs0[i]
        /\ Cardinality(Backups(fs)) <= maxBackupCount
        /\ (Contiguous(fsAtSetup) \/ rotations >= maxBackupCount) => Contiguous(fs)
        /\ rotations >= 1 => (fs[1].exists /\ fs[1] = Head(closed))

C4_Witness ==
    /\ rstate = "ready"
    /\ maxBackupCount = 3
    /\ ~Contiguous(fsAtSetup)
    /\ rotations = 3
    /\ Backups(fs) = {1, 2, 3}
    /\ fs[1] = Head(closed)

\* Setup left an empty active segment and no backup.
CleanStart ==
    /\ fsAtSetup[0].msgs = <<>>
    /\ Backups(fsAtSetup) = {}

Min(a, b) == IF a <= b THEN a ELSE b

\* C5: from a clean state, after k rotations exactly min(k, maxBackupCount)
\* backups exist, backup i is the segment closed i rotations ago, no segment
\* is in two files, and the segments no longer on disk are exactly those
\* closed more than maxBackupCount rotations ago.
C5_BackupsShiftFromCleanState ==
    (rstate = "ready" /\ CleanStart) =>
        /\ Len(closed) = rotations
        /\ Backups(fs) = 1..Min(rotations, maxBackupCount)
        /\ \A i \in Backups(fs) : fs[i] = closed[i]
        /\ \A i, j \in 0..MaxIdx :
              (i # j /\ fs[i].exists /\ fs[j].exists) => fs[i].seg # fs[j].seg
        /\ \A k \in 1..Len(closed) :
              (\E i \in 1..MaxIdx : fs[i] = closed[k]) <=> k <= maxBackupCount

C5_Witness ==
    /\ rstate = "ready"
    /\ CleanStart
    /\ maxBackupCount = 2
    /\ rotations = 3
    /\ fs[1] = closed[1]
    /\ fs[2] = closed[2]
    /\ closed[1].msgs # closed[2].msgs

(***************************************************************************)
(* Claims about the Telegram handler                                       *)
(***************************************************************************)
Ids(q) == {q[i].id : i \in 1..Len(q)}

Increasing(q) == \A i, j \in 1..Len(q) : i < j => q[i].id < q[j].id

\* C6: at most one sendMessage request is outstanding, and one is outstanding
\* exactly while the in-flight flag is set.
C6_OneDeliveryInFlight ==
    /\ Len(inflight) <= 1
    /\ isRunQueue <=> inflight # <<>>

C6_Witness ==
    /\ Len(inflight) = 1
    /\ queue # <<>>
    /\ timers >= 2
    /\ hasConnectToTg

\* A step starts at most one delivery, and the delivery it starts is for the
\* message at the head of the queue.
StartsAtMostOne ==
    \/ attempted' = attempted
    \/ /\ queue # <<>>
       /\ attempted' = Append(attempted, Head(queue))
       /\ queue' = Tail(queue)

\* C7: delivery attempts are started in the order the messages were passed to
\* log, messages logged while disconnected included: the attempts made and the
\* messages still queued are each in log order, every message still queued was
\* logged after every message attempted, and a tick starts at most one
\* delivery, for the head of the queue.
C7_AttemptsInLogOrder ==
    /\ [](/\ Increasing(attempted)
          /\ Increasing(queue)
          /\ \A a \in Ids(attempted), b \in Ids(queue) : a < b)
    /\ [][StartsAtMostOne]_vars

C7_Witness ==
    /\ Len(attempted) = 3
    /\ attempted[1].off
    /\ attempted[2].off
    /\ ~attempted[3].off
    /\ failed = {1}

\* The tick that follows a failed delivery starts the delivery of the message
\* at the head of the queue.
NextTickAttemptsHead ==
    (lastSettle = "failed" /\ lastSettle' = "none" /\ queue # <<>>) =>
        /\ attempted' = Append(attempted, Head(queue))
        /\ inflight' = <<Head(queue)>>
        /\ isRunQueue'

\* The same, for a head that is not the empty string; an empty string at the
\* head is dequeued without a delivery and another tick is scheduled.
NextTickAttemptsNonEmptyHead ==
    (lastSettle = "failed" /\ lastSettle' = "none" /\ queue # <<>>) =>
        /\ queue' = Tail(queue)
        /\ Head(queue).text # "" =>
              /\ attempted' = Append(attempted, Head(queue))
              /\ inflight' = <<Head(queue)>>
              /\ isRunQueue'
        /\ Head(queue).text = "" =>
              /\ attempted' = attempted
              /\ ~isRunQueue'
              /\ timers' = timers

\* After a delivery failed and until the next tick, the in-flight flag is
\* clear and a tick is pending; the flag is never set without a request.
FailureClearsFlag ==
    /\ lastSettle = "failed" => (~isRunQueue /\ timers > 0 /\ inflight = <<>>)
    /\ isRunQueue => inflight # <<>>

\* C8 as claimed: the flag is cleared, a tick is scheduled, and the next tick
\* starts the delivery of message N+1 if one is queued.
C8_FailureThenNextMessage ==
    /\ []FailureClearsFlag
    /\ [][NextTickAttemptsHead]_vars

\* C8: when the delivery of message N fails the flag is cleared and a tick is
\* scheduled; the next tick dequeues message N+1 if one is queued and starts
\* its delivery unless it is the empty string, which is dropped with a
\* further tick scheduled.
C8_FailureThenNextNonEmptyMessage ==
    /\ []FailureClearsFlag
    /\ [][NextTickAttemptsNonEmptyHead]_vars

C8_Witness ==
    /\ Len(attempted) >= 2
    /\ attempted[1].id \in failed
    /\ attempted[2].id = attempted[1].id + 1
    /\ inflight = <<attempted[2]>>

\* C9: every message is the subject of at most one delivery attempt, and a
\* message that was dequeued (attempted or dropped) is never in the queue
\* again, whether its attempt failed or not.
C9_AtMostOnce ==
    /\ \A i, j \in 1..Len(attempted) : i # j => attempted[i].id # attempted[j].id
    /\ \A i, j \in 1..Len(queue) : i # j => queue[i].id # queue[j].id
    /\ Ids(queue) \cap Ids(attempted) = {}
    /\ Ids(queue) \cap {m.id : m \in dropped} = {}
    /\ failed \subseteq Ids(attempted)

C9_Witness ==
    /\ failed # {}
    /\ queue # <<>>
    /\ inflight = <<>>
    /\ Len(attempted) >= 2
    /\ timers > 0

(***************************************************************************)
(* The life cycle of the rotating file handler                             *)
(***************************************************************************)

\* C11: destroy never raises, in every state: before setup, after a failed
\* setup, after a successful setup, repeatedly, and after log calls made
\* before or after an earlier destroy.
C11_DestroyNeverRaises == threw # "destroy"

\* C12: when setup has failed, the handler holds no open file and no unload
\* listener.
C12_FailedSetupReleasesAll == rstate = "failed" => ~fileOpen /\ ~listener

\* filename or one of filename.1 .. filename.maxBackupCount was there before
\* setup.
ExistedBefore == fs0[0].exists \/ \E i \in 1..maxBackupCount : fs0[i].exists

\* What a successful setup in mode "x" or "w" leaves: an empty filename, and a
\* byte counter of 0 until something is logged.
StartsEmpty ==
    /\ fsAtSetup[0].exists
    /\ fsAtSetup[0].msgs = <<>>
    /\ nextMsg = 1 => currentFileSize = 0 /\ fs = fsAtSetup

\* C13 as stated: in mode "x" setup fails iff filename or a backup 1..N was
\* there, and a setup with none of them succeeds with an empty filename and
\* byte counter 0.
C13_ExclusiveFailsIffExists ==
    mode = "x" =>
        /\ rstate = "failed" => ExistedBefore
        /\ rstate = "ready" => ~ExistedBefore /\ StartsEmpty

\* C13, amended: the same for the setups with maxBytes >= 1 and
\* maxBackupCount >= 1; a setup with a threshold below 1 fails whatever is
\* there.
C13_ExclusiveFailsIffExistsGivenThresholds ==
    /\ (mode = "x" /\ maxBytes >= 1 /\ maxBackupCount >= 1) =>
            /\ rstate = "failed" => ExistedBefore
            /\ rstate = "ready" => ~ExistedBefore /\ StartsEmpty
    /\ (mode = "x" /\ (maxBytes < 1 \/ maxBackupCount < 1)) => rstate \in {"new", "failed"}

C13_Witness ==
    /\ mode = "x"
    /\ rstate = "failed"
    /\ maxBytes >= 1
    /\ maxBackupCount = 2
    /\ ~fs0[0].exists /\ ~fs0[1].exists /\ fs0[2].exists
    /\ fs[0].exists

\* A backup 1..N that was there before setup is still there.
OldBackupLeft == \E i \in 1..maxBackupCount : fs[i].exists /\ fs[i].seg <= 0

\* C14 as stated: in mode "w" the backups that were there are deleted before
\* the fresh filename is opened, so none is left while the handler has
\* filename open.
C14_BackupsDeletedBeforeOpen == (mode = "w" /\ fileOpen) => ~OldBackupLeft

\* C14, amended: in mode "w" the backups that were there are deleted after
\* filename has been opened and truncated, and before setup returns: once
\* setup has returned filename started empty, no backup 1..N was left, and no
\* earlier backup ever comes back.
C14_BackupsDeletedBeforeSetupReturns ==
    /\ (mode = "w" /\ rstate = "ready") =>
            /\ StartsEmpty
            /\ \A i \in 1..maxBackupCount : ~fsAtSetup[i].exists
            /\ ~OldBackupLeft
    /\ (mode = "w" /\ rstate = "opened") => fs[0] = Fresh(nextSeg - 1)

C14_Witness ==
    /\ mode = "w"
    /\ rstate = "ready"
    /\ maxBackupCount = 2
    /\ fs0[1].exists /\ fs0[2].exists /\ fs0[0].exists
    /\ nextMsg = 1

(***************************************************************************)
(* Formatting                                                              *)
(***************************************************************************)

\* C15: in the results of formatCustom and of msgFormat every {name} whose
\* value is null or absent is the text {name} itself, every {name} whose
\* value is present is that value's string, and the other texts are kept.
C15_NeverBlanksPlaceholder ==
    /\ "formatCustom" \in ran =>
          /\ Len(formatted) = Len(format)
          /\ \A i \in 1..Len(format) :
                LET v == CustomValue(format[i].name, logRecord)
                IN  IF format[i].ph /\ v.kind # "null"
                        THEN formatted[i] = Text(String(v))
                        ELSE formatted[i] = format[i]
    /\ "msgFormat" \in ran =>
          /\ Len(message) = Len(format)
          /\ \A i \in 1..Len(format) :
                LET v == MsgValue(format[i].name, args)
                IN  IF format[i].ph /\ v.kind # "null"
                        THEN message[i] = Text(asString(v).text)
                        ELSE message[i] = format[i]

C15_Witness ==
    /\ ran = {"formatCustom", "msgFormat"}
    /\ format = <<Match(Word("category")), Match(Word("msg"))>>
    /\ logRecord.category = Null
    /\ formatted = <<Match(Word("category")), Text("m")>>
    /\ args = <<SomeObj>>
    /\ message = <<Match(Word("category")), Text("v")>>

\* A name that is a non-negative integer.
IsInteger(n) == n.lead # <<>> /\ n.rest = ""

\* The value of a name by the stated order: by index iff the name is a
\* non-negative integer, else by key iff the first argument is a mapping,
\* else none.
StatedValue(n, as) ==
    IF IsInteger(n) THEN ArgAt(as, DigitsValue(n.lead, 0))
    ELSE IF isObject(ArgAt(as, 0)) THEN GetProp(ArgAt(as, 0), n)
    ELSE Null

\* C16: msgFormat resolves every {name} by the stated order; a name that is
\* not an integer is never resolved by index.
C16_ResolutionOrder ==
    "msgFormat" \in ran =>
        \A i \in 1..Len(format) :
            format[i].ph =>
                LET v == StatedValue(format[i].name, args)
                IN  message[i] = IF v.kind = "null" THEN format[i]
                                 ELSE Text(asString(v).text)

(***************************************************************************)
(* The Telegram handler while it is not connected, and its log()           *)
(***************************************************************************)

\* While the sink is not connected nothing is dequeued, no request is made,
\* no timer is pending, and every message logged so far is in the queue.
DisconnectedIsInert ==
    ~hasConnectToTg =>
        /\ attempted = <<>>
        /\ dropped = {}
        /\ inflight = <<>>
        /\ ~isRunQueue
        /\ timers = 0
        /\ Len(queue) = nextId - 1
        /\ \A i \in 1..Len(queue) : queue[i].id = i

\* C17 as stated: once a probe started by setup has failed the sink is
\* disconnected for ever after, nothing is dequeued and no request is made.
C17_FailedProbeStaysDisconnected ==
    probeFailed => ~hasConnectToTg /\ attempted = <<>> /\ dropped = {}

\* A failed probe changes nothing in the sink; the sink gets connected only
\* by a probe that succeeds, and a probe is started only by a setup call.
ProbeFrame ==
    /\ (probeFailed' /\ ~probeFailed) =>
          UNCHANGED <<hasConnectToTg, isRunQueue, queue, timers, inflight, attempted,
                      dropped, setups, nextId>>
    /\ (hasConnectToTg' /\ ~hasConnectToTg) => probes > 0 /\ probes' = probes - 1
    /\ probes' > probes => setups' = setups + 1
    /\ nextId' = nextId + 1 => Len(queue') = Len(queue) + 1

\* C17, amended: a failed probe changes nothing and nothing probes again on
\* its own, so a sink set up once whose probe failed is never connected;
\* while the sink is not connected no tick dequeues a message, no request is
\* made and every log call appends to the queue. Only another setup call
\* whose probe succeeds connects it.
C17_DisconnectedUntilAProbeSucceeds ==
    /\ []DisconnectedIsInert
    /\ []((probeFailed /\ setups = 1) => ~hasConnectToTg)
    /\ [][ProbeFrame]_vars

C17_Witness ==
    /\ probeFailed
    /\ setups = 1
    /\ probes = 0
    /\ ~hasConnectToTg
    /\ Len(queue) = 2
    /\ timers = 0

\* What one log call does: the message is the new last element of the
\* queue, one timer more iff the sink is connected, nothing else.
LogFrame ==
    nextId' = nextId + 1 =>
        /\ Len(queue') = Len(queue) + 1
        /\ SubSeq(queue', 1, Len(queue)) = queue
        /\ queue'[Len(queue')].id = nextId
        /\ timers' = IF hasConnectToTg THEN timers + 1 ELSE timers
        /\ UNCHANGED <<hasConnectToTg, isRunQueue, inflight, attempted, dropped,
                       probes, failed>>

\* C18: log(msg) appends msg at the tail of the queue, schedules a tick iff
\* the sink is connected, starts no request and leaves the connected and
\* in-flight flags as they are; the queue grows by exactly one.
C18_LogAppendsAndSchedules == [][LogFrame]_vars

C18_Witness ==
    /\ Len(queue) = 2
    /\ queue[1].off /\ ~queue[2].off
    /\ queue[1].id = 1 /\ queue[2].id = 2
    /\ hasConnectToTg
    /\ timers = 2
    /\ attempted = <<>>

(***************************************************************************)
(* The message and the return value of the Logger's log methods            *)
(***************************************************************************)

\* C19: when a function is passed as the message and the call passes the
\* Logger's gate, the function is evaluated, and the value returned is the
\* function's result, not the function itself.
C19_FunctionMessageEvaluated ==
    (calls # <<>> /\ last.built /\ last.arg = FnArg) =>
        /\ last.fnInvoked
        /\ last.ret.kind = "string" => last.ret.text = FnArg.text

\* C20: with returnResult every log call returns the string of its argument,
\* whether the gate accepts the call or not; without it every call returns
\* undefined; the handlers have no part in it.
C20_ReturnValue ==
    calls # <<>> =>
        last.ret = IF returnResult
                     THEN [kind |-> "string", text |-> argsToString(last.arg).text]
                     ELSE NoReturn

(***************************************************************************)
(* The tick of the Telegram handler and the progress of its queue          *)
(***************************************************************************)

\* A step of tapQueue: only it takes a timer or shortens the queue.
IsTick == timers' < timers \/ Len(queue') < Len(queue)

\* The tick that does nothing: a delivery is in flight, or the queue is
\* empty, or the sink is not connected.
TickIdle == isRunQueue \/ queue = <<>> \/ ~hasConnectToTg

TickDoesNothing ==
    UNCHANGED <<queue, hasConnectToTg, isRunQueue, inflight, attempted, dropped>>

TickStartsHead ==
    /\ queue' = Tail(queue)
    /\ isRunQueue'
    /\ inflight' = Append(inflight, Head(queue))
    /\ attempted' = Append(attempted, Head(queue))
    /\ UNCHANGED <<hasConnectToTg, dropped>>

TickDropsHead ==
    /\ queue' = Tail(queue)
    /\ dropped' = dropped \cup {Head(queue)}
    /\ timers' = timers
    /\ UNCHANGED <<hasConnectToTg, isRunQueue, inflight, attempted>>

\* C22 as stated: a tick does nothing when a delivery is in flight, the queue
\* is empty or the sink is not connected; otherwise it removes the head, sets
\* the in-flight flag and starts one delivery.
C22_TickFrame ==
    [][IsTick => IF TickIdle THEN TickDoesNothing ELSE TickStartsHead]_vars

\* C22, amended: as stated, except that a head that is the empty string is
\* removed without a delivery and without the in-flight flag, and the tick
\* sets another timer.
C22_TickFrameWithEmptyDropped ==
    [][IsTick => IF TickIdle THEN TickDoesNothing
                 ELSE IF Head(queue).text = "" THEN TickDropsHead
                 ELSE TickStartsHead /\ timers' = timers - 1]_vars

C22_Witness ==
    /\ Len(attempted) = 1
    /\ attempted[1].id = 2
    /\ inflight = attempted
    /\ isRunQueue
    /\ \E m \in dropped : m.id = 1
    /\ Len(queue) = 1

\* A tick is pending whenever the sink is connected, nothing is in flight and
\* the queue is not empty.
TickPending == (hasConnectToTg /\ ~isRunQueue /\ queue # <<>>) => timers > 0

Queued(i) == hasConnectToTg /\ i \in Ids(queue)

\* C23 as stated: a tick is pending whenever it is needed, and once the sink
\* is connected every message in the queue gets its delivery attempt.
C23_EveryMessageAttempted ==
    /\ []TickPending
    /\ \A i \in 1..MaxMsgs : Queued(i) ~> (i \in Ids(attempted))

\* C23, amended: a tick is pending whenever it is needed, and once the sink
\* is connected every message in the queue leaves it: a message that is not
\* the empty string gets its delivery attempt, the empty string is dropped.
C23_EveryMessageLeavesTheQueue ==
    /\ []TickPending
    /\ \A i \in 1..MaxMsgs :
          Queued(i) ~> (i \in Ids(attempted) \/ \E m \in dropped : m.id = i)
    /\ [](\A m \in dropped : m.text = "")
    /\ [](\A k \in 1..Len(attempted) : attempted[k].text # "")

C23_Witness ==
    /\ Len(attempted) = 2
    /\ attempted[1].off /\ attempted[2].off
    /\ failed = {attempted[1].id}
    /\ queue = <<>>
    /\ inflight = <<>>
    /\ timers = 0

(***************************************************************************)
(* The byte counter and the order of the messages in the files             *)
(***************************************************************************)

\* One log call adds the size of its message to the counter, which a
\* rotation has set to 0 first.
CounterStep ==
    nextMsg' = nextMsg + 1 =>
        LET msg == fs'[0].msgs[Len(fs'[0].msgs)]
        IN  currentFileSize' =
                (IF rotations' = rotations + 1 THEN 0 ELSE currentFileSize) + msg.size

RECURSIVE ReadBack(_, _)
ReadBack(f, i) ==
    IF i = 0
        THEN f[0].msgs
        ELSE (IF f[i].exists THEN f[i].msgs ELSE <<>>) \o ReadBack(f, i - 1)

\* The ids of what is read from filename.maxBackupCount down to filename.
ReadIds == LET r == ReadBack(fs, maxBackupCount) IN [k \in 1..Len(r) |-> r[k].id]

IsLogged(id) == id > 0

\* seq is the last Len(seq) of the numbers 1 .. nextMsg - 1, in order.
SuffixOfLogged(seq) ==
    /\ Len(seq) <= nextMsg - 1
    /\ \A k \in 1..Len(seq) : seq[k] = (nextMsg - 1 - Len(seq)) + k

\* C25 as stated: what is read from the backups, oldest first, and then from
\* filename is a contiguous suffix of the messages logged so far.
C25_ReadIsSuffixOfLogged ==
    rstate = "ready" => SuffixOfLogged(ReadIds)

\* C25, amended: what was in the files before setup comes first; after it,
\* the messages logged are a contiguous suffix of the messages logged so far
\* that ends with the latest message, and a message is missing only after
\* more than maxBackupCount rotations.
C25_LoggedPartIsSuffixOfLogged ==
    rstate = "ready" =>
        LET new == SelectSeq(ReadIds, IsLogged)
        IN  /\ SuffixOfLogged(new)
            /\ \A j, k \in 1..Len(ReadIds) :
                  (j < k /\ IsLogged(ReadIds[j])) => IsLogged(ReadIds[k])
            /\ nextMsg > 1 => new # <<>>
            /\ Len(new) < nextMsg - 1 => rotations > maxBackupCount

C25_Witness ==
    /\ rstate = "ready"
    /\ maxBackupCount = 2
    /\ rotations = 3
    /\ ReadIds = <<2, 3, 4>>
    /\ Len(fs[0].msgs) = 1

(***************************************************************************)
(* The split of the template and the text of the console handler           *)
(***************************************************************************)

\* C21: for a template that holds {msg}, splitFormatter gives as prefix what
\* is before the first {msg} and as msg what follows from that {msg} on, and
\* the two together are the template.
C21_SplitAtFirstMsg ==
    ("splitFormatter" \in ran /\ \E i \in 1..Len(console.formatter) :
                                     console.formatter[i] = MsgMatch) =>
        LET fmt == console.formatter
            first == MinOf({i \in 1..Len(fmt) : fmt[i] = MsgMatch})
        IN  /\ split.found
            /\ split.prefix = SubSeq(fmt, 1, first - 1)
            /\ split.msg = SubSeq(fmt, first, Len(fmt))
            /\ split.prefix \o split.msg = fmt

\* C26: with colour, the text the console handler gives to log() is, with the
\* colour codes stripped, the text BaseHandler.format makes of the record.
C26_ColourKeepsText ==
    ({"format", "handle"} \subseteq ran /\ ~console.noColor) =>
        stripColor(printed) = formatted

====
